---- MODULE Spec2Model ----
(***************************************************************************)
(* markdown_to_docs_requests (src/google_docs_integration.py): the walk    *)
(* over the markdown-it token stream that produces the Google Docs         *)
(* batchUpdate requests.  The token stream is the function's input; it is  *)
(* drawn token by token as the loop reaches it.                            *)
(***************************************************************************)
EXTENDS Integers, Sequences, FiniteSets, TLC

VARIABLES
    start_index,              \* parameter start_index
    requests,                 \* list of insertText requests
    formatting_requests,      \* list of deferred style requests
    current_index,            \* the cursor
    current_heading_level,    \* None (modelled as 0) or the open heading's level
    i,                        \* loop index of the token in hand, or of the next one
    prev,                     \* type of tokens[i-1] ("none" when i = 0)
    paragraph_start_index,
    is_bold,
    is_italic,
    j,                        \* number of inline children walked so far
    pc,                       \* "start", "loop", "children", "done"
    result                    \* the returned batch (<<>> until the return)

vars == <<start_index, requests, formatting_requests, current_index,
          current_heading_level, i, prev, paragraph_start_index,
          is_bold, is_italic, j, pc, result>>

----------------------------------------------------------------------------
(* Bounds of the model *)

MaxStart == 2
MaxWalk == 6

(* The inputs *)

StartIndexes == 1..MaxStart
HeadingLevels == {1, 2, 3, 4}
Contents == {"", "A", "Title"}

----------------------------------------------------------------------------
(* The request dictionaries *)

InsertText(index, text) ==
    [insertText |-> [location |-> [index |-> index], text |-> text]]

UpdateTextStyle(startIndex, endIndex, textStyle, fields) ==
    [updateTextStyle |-> [range |-> [startIndex |-> startIndex, endIndex |-> endIndex],
                          textStyle |-> textStyle,
                          fields |-> fields]]

UpdateParagraphStyle(startIndex, endIndex, paragraphStyle, fields) ==
    [updateParagraphStyle |-> [range |-> [startIndex |-> startIndex, endIndex |-> endIndex],
                               paragraphStyle |-> paragraphStyle,
                               fields |-> fields]]

None == 0

heading_mapTwoLevels(level) ==
    CASE level = 1 -> "HEADING_1"
      [] level = 2 -> "HEADING_2"
      [] OTHER -> "NORMAL_TEXT"

heading_map(level) ==
    CASE level = 1 -> "HEADING_1"
      [] level = 2 -> "HEADING_2"
      [] level = 3 -> "HEADING_3"
      [] OTHER -> "NORMAL_TEXT"

NamedStyle(level) == [namedStyleType |-> heading_map(level)]

SpaceBelow == [spaceBelow |-> [magnitude |-> 10, unit |-> "PT"]]

TextStyle(bold, italic) ==
    CASE bold /\ italic -> [bold |-> TRUE, italic |-> TRUE]
      [] bold /\ ~italic -> [bold |-> TRUE]
      [] OTHER -> [italic |-> TRUE]

TextFields(bold, italic) ==
    CASE bold /\ italic -> "bold,italic"
      [] bold /\ ~italic -> "bold"
      [] OTHER -> "italic"

NeedsSeparatorFrom2(start) == start > 2

NeedsSeparator(start) == start > 1

NeedsTextStyleBoldOnly(bold, italic) == bold

NeedsTextStyle(bold, italic) == bold \/ italic

HasContentOrEmpty(pstart, pend) == pend >= pstart

HasContent(pstart, pend) == pend > pstart

AfterAnyToken(index, before) == index > 0

AfterParagraphOpenOffByOne(index, before) == index > 1 /\ before = "paragraph_open"

AfterParagraphOpen(index, before) == index > 0 /\ before = "paragraph_open"

BatchStylesFirst(reqs, fmts) == fmts \o reqs

Batch(reqs, fmts) == reqs \o fmts

----------------------------------------------------------------------------
Init ==
    /\ start_index \in StartIndexes
    /\ requests = <<>>
    /\ formatting_requests = <<>>
    /\ current_index = start_index
    /\ current_heading_level = None
    /\ i = 0
    /\ prev = "none"
    /\ paragraph_start_index = 0
    /\ is_bold = FALSE
    /\ is_italic = FALSE
    /\ j = 0
    /\ pc = "start"
    /\ result = <<>>

(* lines 29-37: the separator *)
Separator ==
    /\ pc = "start"
    /\ IF NeedsSeparator(start_index)
         THEN /\ requests' = Append(requests, InsertText(current_index, "\n\n"))
              /\ current_index' = current_index + 2
         ELSE UNCHANGED <<requests, current_index>>
    /\ pc' = "loop"
    /\ UNCHANGED <<start_index, formatting_requests, current_heading_level, i, prev,
                   paragraph_start_index, is_bold, is_italic, j, result>>

(* the for statement fetching tokens[i] *)
Fetch ==
    /\ pc = "loop"
    /\ i + j < MaxWalk

(* the end of the iteration over a token of type t *)
Advance(t) ==
    /\ i' = i + 1
    /\ prev' = t

(* lines 53-54 *)
HeadingOpen(level) ==
    /\ Fetch
    /\ current_heading_level' = level
    /\ Advance("heading_open")
    /\ UNCHANGED <<start_index, requests, formatting_requests, current_index,
                   paragraph_start_index, is_bold, is_italic, j, pc, result>>

(* lines 56-57 *)
HeadingClose ==
    /\ Fetch
    /\ current_heading_level' = None
    /\ Advance("heading_close")
    /\ UNCHANGED <<start_index, requests, formatting_requests, current_index,
                   paragraph_start_index, is_bold, is_italic, j, pc, result>>

(* a token of a type no branch of the loop handles *)
OtherToken(t) ==
    /\ Fetch
    /\ Advance(t)
    /\ UNCHANGED <<start_index, requests, formatting_requests, current_index,
                   current_heading_level, paragraph_start_index, is_bold, is_italic,
                   j, pc, result>>

InlineOpenKeepFlags ==
    /\ Fetch
    /\ paragraph_start_index' = current_index
    /\ pc' = "children"
    /\ UNCHANGED <<start_index, requests, formatting_requests, current_index,
                   current_heading_level, i, prev, is_bold, is_italic, j, result>>

(* lines 60-65 *)
InlineOpen ==
    /\ Fetch
    /\ paragraph_start_index' = current_index
    /\ is_bold' = FALSE
    /\ is_italic' = FALSE
    /\ pc' = "children"
    /\ UNCHANGED <<start_index, requests, formatting_requests, current_index,
                   current_heading_level, i, prev, j, result>>

(* the inner for statement fetching the next child *)
FetchChild ==
    /\ pc = "children"
    /\ i + j < MaxWalk
    /\ j' = j + 1

(* lines 72-85 *)
SetFlags(bold, italic) ==
    /\ FetchChild
    /\ is_bold' = bold
    /\ is_italic' = italic
    /\ UNCHANGED <<start_index, requests, formatting_requests, current_index,
                   current_heading_level, i, prev, paragraph_start_index,
                   pc, result>>

StrongOpen == SetFlags(TRUE, is_italic)
StrongClose == SetFlags(FALSE, is_italic)
EmOpen == SetFlags(is_bold, TRUE)
EmClose == SetFlags(is_bold, FALSE)

SoftbreakNoAdvance ==
    /\ FetchChild
    /\ requests' = Append(requests, InsertText(current_index, " "))
    /\ UNCHANGED <<start_index, formatting_requests, current_index,
                   current_heading_level, i, prev, paragraph_start_index,
                   is_bold, is_italic, pc, result>>

SoftbreakNewline ==
    /\ FetchChild
    /\ requests' = Append(requests, InsertText(current_index, "\n"))
    /\ current_index' = current_index + 1
    /\ UNCHANGED <<start_index, formatting_requests, current_heading_level, i, prev,
                   paragraph_start_index, is_bold, is_italic, pc, result>>

(* lines 88-96 *)
Softbreak ==
    /\ FetchChild
    /\ requests' = Append(requests, InsertText(current_index, " "))
    /\ current_index' = current_index + 1
    /\ UNCHANGED <<start_index, formatting_requests, current_heading_level, i, prev,
                   paragraph_start_index, is_bold, is_italic, pc, result>>

TextAdvanceOne(content) ==
    /\ FetchChild
    /\ IF content # ""
         THEN /\ requests' = Append(requests, InsertText(current_index, content))
              /\ formatting_requests' =
                   IF NeedsTextStyle(is_bold, is_italic)
                     THEN Append(formatting_requests,
                                 UpdateTextStyle(current_index, current_index + 1,
                                                 TextStyle(is_bold, is_italic),
                                                 TextFields(is_bold, is_italic)))
                     ELSE formatting_requests
              /\ current_index' = current_index + 1
         ELSE UNCHANGED <<requests, formatting_requests, current_index>>
    /\ UNCHANGED <<start_index, current_heading_level, i, prev,
                   paragraph_start_index, is_bold, is_italic, pc, result>>

(* lines 99-137 *)
Text(content) ==
    /\ FetchChild
    /\ IF content # ""
         THEN LET text_length == Len(content)
                  text_start == current_index
                  text_end == current_index + text_length
              IN /\ requests' = Append(requests, InsertText(current_index, content))
                 /\ formatting_requests' =
                      IF NeedsTextStyle(is_bold, is_italic)
                        THEN Append(formatting_requests,
                                    UpdateTextStyle(text_start, text_end,
                                                    TextStyle(is_bold, is_italic),
                                                    TextFields(is_bold, is_italic)))
                        ELSE formatting_requests
                 /\ current_index' = text_end
         ELSE UNCHANGED <<requests, formatting_requests, current_index>>
    /\ UNCHANGED <<start_index, current_heading_level, i, prev,
                   paragraph_start_index, is_bold, is_italic, pc, result>>

(* a child of a type no branch handles (code_inline, hardbreak, link_open, ...) *)
OtherChild ==
    /\ FetchChild
    /\ UNCHANGED <<start_index, requests, formatting_requests, current_index,
                   current_heading_level, i, prev, paragraph_start_index,
                   is_bold, is_italic, pc, result>>

(* lines 139-186: the trailing newline and the block-level formatting *)
InlineClose ==
    /\ pc = "children"
    /\ requests' = Append(requests, InsertText(current_index, "\n"))
    /\ current_index' = current_index + 1
    /\ LET newline_index == current_index
           paragraph_end_index == newline_index
       IN formatting_requests' =
            IF HasContent(paragraph_start_index, paragraph_end_index)
              THEN IF current_heading_level # None
                     THEN Append(formatting_requests,
                                 UpdateParagraphStyle(paragraph_start_index,
                                                      paragraph_end_index,
                                                      NamedStyle(current_heading_level),
                                                      "namedStyleType"))
                     ELSE IF AfterParagraphOpen(i, prev)
                            THEN Append(formatting_requests,
                                        UpdateParagraphStyle(paragraph_start_index,
                                                             paragraph_end_index,
                                                             SpaceBelow, "spaceBelow"))
                            ELSE formatting_requests
              ELSE formatting_requests
    /\ Advance("inline")
    /\ pc' = "loop"
    /\ UNCHANGED <<start_index, current_heading_level, paragraph_start_index,
                   is_bold, is_italic, j, result>>

(* line 190 *)
Return ==
    /\ pc = "loop"
    /\ result' = Batch(requests, formatting_requests)
    /\ pc' = "done"
    /\ UNCHANGED <<start_index, requests, formatting_requests, current_index,
                   current_heading_level, i, prev, paragraph_start_index,
                   is_bold, is_italic, j>>

Next ==
    \/ Separator
    \/ \E level \in HeadingLevels : HeadingOpen(level)
    \/ HeadingClose
    \/ \E t \in {"paragraph_open", "paragraph_close"} : OtherToken(t)
    \/ InlineOpen
    \/ StrongOpen
    \/ StrongClose
    \/ EmOpen
    \/ EmClose
    \/ Softbreak
    \/ \E content \in Contents : Text(content)
    \/ OtherChild
    \/ InlineClose
    \/ Return

Spec == Init /\ [][Next]_vars

(* The walk over plain paragraphs only: paragraph_open, an inline token    *)
(* of text children, one of them with content, paragraph_close.            *)
NextPlain ==
    \/ Separator
    \/ (prev \in {"none", "paragraph_close"} /\ OtherToken("paragraph_open"))
    \/ (prev = "paragraph_open" /\ InlineOpen)
    \/ \E content \in Contents :
          (content # "" => current_index = paragraph_start_index) /\ Text(content)
    \/ (current_index > paragraph_start_index /\ InlineClose)
    \/ (prev = "inline" /\ OtherToken("paragraph_close"))
    \/ (prev \in {"none", "inline", "paragraph_close"} /\ Return)

SpecPlain == Init /\ [][NextPlain]_vars

(* The walk over one inline token whose children nest an emphasis pair in  *)
(* a pair of the same kind: open, open, text, close, text, close (the      *)
(* children markdown-it gives for "____foo__ bar__").                      *)
NextNested ==
    \/ Separator
    \/ (i = 0 /\ j = 0 /\ InlineOpen)
    \/ (j = 0 /\ (StrongOpen \/ EmOpen))
    \/ (j = 1 /\ ((is_bold /\ StrongOpen) \/ (is_italic /\ EmOpen)))
    \/ (j = 2 /\ \E content \in Contents \ {""} : Text(content))
    \/ (j = 3 /\ ((is_bold /\ StrongClose) \/ (is_italic /\ EmClose)))
    \/ (j = 4 /\ \E content \in Contents : Text(content))
    \/ (j = 5 /\ IF "bold" \in DOMAIN formatting_requests[1].updateTextStyle.textStyle
                    THEN StrongClose ELSE EmClose)
    \/ (j = 6 /\ InlineClose)
    \/ (i = 1 /\ Return)

SpecNested == Init /\ [][NextNested]_vars

----------------------------------------------------------------------------
(* Reading a request *)

IsInsert(r) == "insertText" \in DOMAIN r
IsTextStyle(r) == "updateTextStyle" \in DOMAIN r
IsParagraphStyle(r) == "updateParagraphStyle" \in DOMAIN r
IndexOf(r) == r.insertText.location.index
TextOf(r) == r.insertText.text
RangeOf(r) == IF IsTextStyle(r) THEN r.updateTextStyle.range
                                ELSE r.updateParagraphStyle.range

RECURSIVE TextLength(_)
TextLength(ops) ==
    IF ops = <<>> THEN 0
    ELSE (IF IsInsert(Head(ops)) THEN Len(TextOf(Head(ops))) ELSE 0)
         + TextLength(Tail(ops))

Inserts(ops) == SelectSeq(ops, IsInsert)
Styles(ops) == SelectSeq(ops, LAMBDA r : ~IsInsert(r))

----------------------------------------------------------------------------
(* C1: in the returned batch every insertText operation comes before every *)
(* updateTextStyle and updateParagraphStyle operation.                     *)
C1_InsertsBeforeStyles ==
    pc = "done" =>
        \A a, b \in 1..Len(result) :
            (IsInsert(result[a]) /\ ~IsInsert(result[b])) => a < b

C1_Witness ==
    /\ pc = "done"
    /\ Len(Inserts(result)) >= 3
    /\ \E a, b \in 1..Len(result) : IsTextStyle(result[a]) /\ IsParagraphStyle(result[b])

(* C2: the "\n\n" separator is emitted exactly when start_index > 1; then  *)
(* it is the first operation, at start_index, and every later offset is    *)
(* computed from start_index + 2; for start_index = 1 there is no          *)
(* separator and the first insertion, if any, is at offset 1.              *)
C2_Batch(ops) ==
    IF start_index > 1
      THEN /\ Len(ops) >= 1
           /\ ops[1] = InsertText(start_index, "\n\n")
           /\ \A k \in 2..Len(ops) :
                IF IsInsert(ops[k])
                  THEN /\ TextOf(ops[k]) # "\n\n"
                       /\ IndexOf(ops[k]) =
                            start_index + 2 + TextLength(SubSeq(ops, 2, k - 1))
                  ELSE RangeOf(ops[k]).startIndex >= start_index + 2
      ELSE /\ \A k \in 1..Len(ops) : IsInsert(ops[k]) => TextOf(ops[k]) # "\n\n"
           /\ Inserts(ops) # <<>> => IndexOf(Inserts(ops)[1]) = 1
           /\ \A k \in 1..Len(ops) :
                IsInsert(ops[k]) =>
                    IndexOf(ops[k]) = 1 + TextLength(SubSeq(ops, 1, k - 1))

C2_Separator ==
    /\ pc = "start" => requests = <<>>
    /\ pc # "start" => C2_Batch(requests \o formatting_requests)
    /\ pc = "done" => C2_Batch(result)

C2_Witness ==
    /\ pc = "done"
    /\ start_index > 1
    /\ Len(Inserts(result)) >= 4
    /\ Styles(result) # <<>>

(* C3: the lengths of the text of all insertText operations of the batch   *)
(* add up to the final cursor minus the start offset.                      *)
C3_TextLength ==
    /\ TextLength(requests) = current_index - start_index
    /\ pc = "done" => TextLength(result) = current_index - start_index

C3_Witness ==
    /\ pc = "done"
    /\ start_index > 1
    /\ \E a, b, c \in 1..Len(requests) :
          /\ TextOf(requests[a]) = " "
          /\ TextOf(requests[b]) = "Title"
          /\ TextOf(requests[c]) = "\n"
    /\ current_index - start_index = 9

(* C4: every updateTextStyle and updateParagraphStyle range has            *)
(* startIndex < endIndex and lies within the offsets the insertText        *)
(* operations of the batch cover: from the start offset to the final       *)
(* cursor.                                                                 *)
C4_Range(r, texts) ==
    /\ r.startIndex < r.endIndex
    /\ r.startIndex >= start_index
    /\ r.endIndex <= current_index
    /\ texts # <<>>
    /\ r.startIndex >= IndexOf(texts[1])
    /\ r.endIndex <= IndexOf(texts[Len(texts)]) + Len(TextOf(texts[Len(texts)]))

C4_RangesWithinText ==
    /\ \A k \in 1..Len(formatting_requests) :
          C4_Range(RangeOf(formatting_requests[k]), requests)
    /\ pc = "done" =>
          LET texts == Inserts(result)
          IN \A k \in 1..Len(result) :
                ~IsInsert(result[k]) => C4_Range(RangeOf(result[k]), texts)

C4_Witness ==
    /\ pc = "done"
    /\ start_index > 1
    /\ \E a, b \in 1..Len(result) :
          /\ IsTextStyle(result[a])
          /\ IsParagraphStyle(result[b])
          /\ RangeOf(result[b]).endIndex = current_index - 1

IsHeadingStyle(r) ==
    IsParagraphStyle(r) /\ "namedStyleType" \in DOMAIN r.updateParagraphStyle.paragraphStyle
IsContent(r) == IsInsert(r) /\ TextOf(r) \in Contents
IsNewline(r) == IsInsert(r) /\ TextOf(r) = "\n"
Added(old, new) == SubSeq(new, Len(old) + 1, Len(new))

(* the steps of the walk *)
InlineOpens == pc = "loop" /\ pc' = "children"
InlineCloses == pc = "children" /\ pc' = "loop"
Inserted == current_index > paragraph_start_index

(* C5 as stated: for an input of plain paragraphs only, the batch holds    *)
(* one content insertion and one newline insertion per paragraph and no    *)
(* updateTextStyle and no updateParagraphStyle operation.                  *)
Paragraphs == (i + 1) \div 3

C5_PlainNoStyleOps ==
    pc = "done" =>
        /\ Len(SelectSeq(result, IsContent)) = Paragraphs
        /\ Len(SelectSeq(result, IsNewline)) = Paragraphs
        /\ Len(Inserts(result)) = 2 * Paragraphs + (IF start_index > 1 THEN 1 ELSE 0)
        /\ Styles(result) = <<>>

(* C5 amended: for an input of plain paragraphs only, the batch holds one  *)
(* content insertion and one newline insertion per paragraph, no           *)
(* updateTextStyle and no heading style, and exactly one spaceBelow        *)
(* updateParagraphStyle per paragraph, over that paragraph's content.      *)
C5_PlainOnlySpacing ==
    pc = "done" =>
        /\ Len(SelectSeq(result, IsContent)) = Paragraphs
        /\ Len(SelectSeq(result, IsNewline)) = Paragraphs
        /\ Len(Inserts(result)) = 2 * Paragraphs + (IF start_index > 1 THEN 1 ELSE 0)
        /\ Len(Styles(result)) = Paragraphs
        /\ \A k \in 1..Paragraphs :
              LET text == SelectSeq(result, IsContent)[k]
              IN Styles(result)[k] =
                    UpdateParagraphStyle(IndexOf(text), IndexOf(text) + Len(TextOf(text)),
                                         [spaceBelow |-> [magnitude |-> 10, unit |-> "PT"]],
                                         "spaceBelow")

C5_Witness ==
    /\ pc = "done"
    /\ Paragraphs = 2
    /\ start_index > 1
    /\ Len(result) = 7

(* C6: an inline token gets a namedStyleType paragraph style exactly when  *)
(* a heading is open and it inserted at least one character; the range is  *)
(* from the cursor at which the inline token began to the offset of its    *)
(* trailing newline, and the style is HEADING_1/2/3 for levels 1/2/3 and   *)
(* NORMAL_TEXT for any other level.                                        *)
C6_StyleName(level) ==
    IF level = 1 THEN "HEADING_1"
    ELSE IF level = 2 THEN "HEADING_2"
    ELSE IF level = 3 THEN "HEADING_3"
    ELSE "NORMAL_TEXT"

C6_HeadingStyle ==
    [][/\ InlineOpens => paragraph_start_index' = current_index
       /\ (pc = "children" /\ pc' = "children") => UNCHANGED paragraph_start_index
       /\ i' = i + 1 =>
            current_heading_level' =
                IF prev' = "heading_open" THEN current_heading_level'
                ELSE IF prev' = "heading_close" THEN None
                ELSE current_heading_level
       /\ (i' = i + 1 /\ prev' = "heading_open") => current_heading_level' \in HeadingLevels
       /\ i' = i => UNCHANGED current_heading_level
       /\ InlineCloses =>
            LET newline == requests'[Len(requests')]
            IN /\ Len(requests') = Len(requests) + 1
               /\ IsNewline(newline)
               /\ IF current_heading_level # None /\ Inserted
                    THEN Added(formatting_requests, formatting_requests') =
                           << UpdateParagraphStyle(
                                paragraph_start_index, IndexOf(newline),
                                [namedStyleType |-> C6_StyleName(current_heading_level)],
                                "namedStyleType") >>
                    ELSE \A k \in 1..Len(formatting_requests') :
                            k > Len(formatting_requests)
                                => ~IsHeadingStyle(formatting_requests'[k])
      ]_vars

C6_Witness ==
    /\ pc = "done"
    /\ result = << InsertText(1, "Title"), InsertText(6, "\n"),
                   UpdateParagraphStyle(1, 6, [namedStyleType |-> "HEADING_1"],
                                        "namedStyleType") >>

(* C7: an inline token outside a heading that inserted at least one        *)
(* character gets a spaceBelow 10 PT paragraph style over                  *)
(* [paragraphStart, paragraphEnd) exactly when the token before it is a    *)
(* paragraph_open; otherwise it gets no paragraph style at all.            *)
C7_SpacedParagraph ==
    [][(InlineCloses /\ current_heading_level = None /\ Inserted) =>
            IF i > 0 /\ prev = "paragraph_open"
              THEN Added(formatting_requests, formatting_requests') =
                     << UpdateParagraphStyle(
                          paragraph_start_index, IndexOf(requests'[Len(requests')]),
                          [spaceBelow |-> [magnitude |-> 10, unit |-> "PT"]],
                          "spaceBelow") >>
              ELSE formatting_requests' = formatting_requests
      ]_vars

C7_Witness ==
    /\ pc = "done"
    /\ result = << InsertText(1, "A"), InsertText(2, "\n"),
                   InsertText(3, "A"), InsertText(4, "\n"),
                   UpdateParagraphStyle(1, 2, SpaceBelow, "spaceBelow"),
                   UpdateParagraphStyle(3, 4, SpaceBelow, "spaceBelow") >>

(* C8: a text child with non-empty content gets an updateTextStyle exactly *)
(* when the bold or the italic flag is active; it covers                   *)
(* [cursor, cursor + len(content)) and sets exactly the active flags; no   *)
(* other child records a style, so every updateTextStyle range is the span *)
(* of one text insertion.                                                  *)
C8_Style(bold, italic) ==
    IF bold /\ italic THEN [bold |-> TRUE, italic |-> TRUE]
    ELSE IF bold THEN [bold |-> TRUE]
    ELSE [italic |-> TRUE]

C8_Fields(bold, italic) ==
    IF bold /\ italic THEN "bold,italic" ELSE IF bold THEN "bold" ELSE "italic"

C8_TextStyle ==
    /\ [][/\ \A content \in Contents \ {""} :
                Text(content) =>
                    IF is_bold \/ is_italic
                      THEN Added(formatting_requests, formatting_requests') =
                             << UpdateTextStyle(current_index,
                                                current_index + Len(content),
                                                C8_Style(is_bold, is_italic),
                                                C8_Fields(is_bold, is_italic)) >>
                      ELSE formatting_requests' = formatting_requests
          /\ (pc = "children" /\ pc' = "children"
                /\ ~ \E content \in Contents \ {""} : Text(content))
                => formatting_requests' = formatting_requests
         ]_vars
    /\ [](\A k \in 1..Len(formatting_requests) :
            IsTextStyle(formatting_requests[k]) =>
                \E n \in 1..Len(requests) :
                    /\ IsContent(requests[n])
                    /\ RangeOf(formatting_requests[k]) =
                         [startIndex |-> IndexOf(requests[n]),
                          endIndex |-> IndexOf(requests[n]) + Len(TextOf(requests[n]))])

C8_Witness ==
    /\ start_index = 1
    /\ requests = << InsertText(1, "Title"), InsertText(6, "A"), InsertText(7, "Title") >>
    /\ formatting_requests =
         << UpdateTextStyle(1, 6, [bold |-> TRUE], "bold"),
            UpdateTextStyle(7, 12, [bold |-> TRUE], "bold") >>

(* C9: a softbreak child emits one insertion of a single space at the      *)
(* cursor, advances the cursor by 1 and records no style; the insertion    *)
(* after a softbreak's space is at the next offset and no updateTextStyle  *)
(* range covers the space.                                                 *)
C9_Softbreak ==
    /\ [][Softbreak =>
            /\ requests' = Append(requests, InsertText(current_index, " "))
            /\ current_index' = current_index + 1
            /\ formatting_requests' = formatting_requests
         ]_vars
    /\ [](\A n \in 1..Len(requests) :
            TextOf(requests[n]) = " " =>
                /\ n < Len(requests) => IndexOf(requests[n + 1]) = IndexOf(requests[n]) + 1
                /\ n = Len(requests) => current_index = IndexOf(requests[n]) + 1
                /\ \A k \in 1..Len(formatting_requests) :
                      IsTextStyle(formatting_requests[k]) =>
                          \/ RangeOf(formatting_requests[k]).endIndex <= IndexOf(requests[n])
                          \/ RangeOf(formatting_requests[k]).startIndex > IndexOf(requests[n]))

C9_Witness ==
    /\ pc = "done"
    /\ Inserts(result) = << InsertText(1, "A"), InsertText(2, " "),
                            InsertText(3, "Title"), InsertText(8, "\n") >>
    /\ current_index - start_index = Len("A") + 1 + Len("Title") + 1

(* C10: a same-kind emphasis pair nested inside another pair yields the    *)
(* character styles of the children with the inner pair removed: all the   *)
(* text between the outer open and the outer close is styled.              *)
C10_NestedSameAsOuterOnly ==
    \A n \in 1..Len(requests) :
        IsContent(requests[n]) =>
            \E k \in 1..Len(formatting_requests) :
                /\ IsTextStyle(formatting_requests[k])
                /\ RangeOf(formatting_requests[k]) =
                     [startIndex |-> IndexOf(requests[n]),
                      endIndex |-> IndexOf(requests[n]) + Len(TextOf(requests[n]))]

(* C11: an inline token that inserts no characters still emits exactly one *)
(* insertion, the trailing newline at the cursor, advances the cursor by   *)
(* 1 and records neither an updateTextStyle nor an updateParagraphStyle,   *)
(* whether or not a heading is open and whatever token precedes it.        *)
C11_EmptyInline ==
    /\ [][(InlineCloses /\ ~Inserted) =>
            /\ requests' = Append(requests, InsertText(current_index, "\n"))
            /\ current_index' = current_index + 1
            /\ formatting_requests' = formatting_requests
         ]_vars
    /\ []((pc = "children" /\ ~Inserted) =>
            /\ \A n \in 1..Len(requests) : IndexOf(requests[n]) < paragraph_start_index
            /\ \A k \in 1..Len(formatting_requests) :
                  RangeOf(formatting_requests[k]).endIndex < paragraph_start_index)

C11_Witness ==
    /\ pc = "loop"
    /\ prev = "inline"
    /\ i = 2
    /\ j = 3
    /\ current_heading_level = 1
    /\ start_index = 1
    /\ requests = << InsertText(1, "\n") >>
    /\ formatting_requests = <<>>
    /\ current_index = 2

(* C12: the bold and italic flags are scoped to one inline token: both are *)
(* false when the walk of an inline token begins and only a child of the   *)
(* token in hand sets one, so an emphasis-open left unclosed in an earlier *)
(* inline token styles no text of a later one.                             *)
C12_FlagsScoped ==
    [][/\ InlineOpens => (~is_bold' /\ ~is_italic')
       /\ ((is_bold' /\ ~is_bold) \/ (is_italic' /\ ~is_italic))
            => (pc = "children" /\ pc' = "children" /\ j' = j + 1)
       /\ (Len(formatting_requests') > Len(formatting_requests)
             /\ IsTextStyle(formatting_requests'[Len(formatting_requests')]))
            => (pc = "children" /\ (is_bold \/ is_italic))
      ]_vars

C12_Witness ==
    /\ pc = "children"
    /\ i = 1
    /\ j = 3
    /\ ~is_bold /\ ~is_italic
    /\ start_index = 1
    /\ requests = << InsertText(1, "A"), InsertText(2, "\n"), InsertText(3, "Title") >>
    /\ formatting_requests = << UpdateTextStyle(1, 2, [bold |-> TRUE], "bold") >>

(* C13: text insertions are contiguous and strictly increasing in offset:  *)
(* each insertText sits at the start offset plus the length of the text    *)
(* of all insertions before it in the batch, and the cursor never          *)
(* decreases during the walk.                                              *)
C13_Contiguous(texts) ==
    /\ \A n \in 1..Len(texts) :
          IndexOf(texts[n]) = start_index + TextLength(SubSeq(texts, 1, n - 1))
    /\ \A n \in 1..(Len(texts) - 1) : IndexOf(texts[n]) < IndexOf(texts[n + 1])

C13_ContiguousInsertions ==
    /\ [](/\ C13_Contiguous(requests)
          /\ requests # <<>> =>
                LET last == requests[Len(requests)]
                IN current_index = IndexOf(last) + Len(TextOf(last))
          /\ pc = "done" => C13_Contiguous(Inserts(result)))
    /\ [][current_index' >= current_index]_vars

C13_Witness ==
    /\ pc = "done"
    /\ Inserts(result) = << InsertText(2, "\n\n"), InsertText(4, "Title"),
                            InsertText(9, " "), InsertText(10, "A"),
                            InsertText(11, "\n") >>
    /\ current_index = 12

====
